---- MODULE Spec2Model ----
(***************************************************************************)
(* Model of the multi-account provisioning cycle of oci-arm-provisioner:   *)
(* the headless main loop (main.go), Provisioner.RunCycle and              *)
(* AccountWorker.Provision (internal/provisioner/provisioner.go),          *)
(* AccountWorker.VerifyInstance (internal/provisioner/verify.go) and the   *)
(* Tracker counters (internal/notifier/stats.go).                          *)
(*                                                                         *)
(* The OCI API is an external capability: every response is drawn from a   *)
(* small set of possible answers.  One action is one stretch of code       *)
(* between two points where the goroutine can block (an API call, a        *)
(* select, a sleep).                                                       *)
(***************************************************************************)
EXTENDS Integers, Sequences, FiniteSets, TLC

\* ---------------------------------------------------------------- bounds
NumAccounts == 2
MaxCycles == 2
MaxPolls == 2

\* ------------------------------------------------------ program constants
StatusCapacity == 500
StatusRateLimit == 429
RequestedOCPUs == 4
RequestedMemoryGB == 24

Accounts == 1..NumAccounts

\* config.Config as far as the cycle reads it: the enabled accounts and
\* Scheduler.AccountDelaySeconds.
Configs == [enabled : SUBSET Accounts, delay : {0, 1}]

\* AccountConfig.AvailabilityDomain of an account: "auto" or a fixed name.
AvailabilityDomain(a) == IF a % 2 = 1 THEN "auto" ELSE "AD-3"

\* core.InstanceLifecycleState values the API can report.
LifecycleStates ==
    {"PROVISIONING", "STARTING", "RUNNING", "STOPPED", "TERMINATING", "TERMINATED"}

\* ---------------------------------------------------------------- errors
\* A Go error value; kind "nil" is the nil error.  Service errors carry the
\* HTTP status and the message (a sequence of characters).
NilErr == [kind |-> "nil", status |-> 0, msg |-> <<>>]
PlainErr(k) == [kind |-> k, status |-> 0, msg |-> <<>>]
ServiceErr(st, m) == [kind |-> "service", status |-> st, msg |-> m]

MsgCapacity == <<"O","u","t"," ","o","f"," ","h","o","s","t"," ","c","a","p","a","c","i","t","y">>
MsgLimit == <<"L","i","m","i","t","E","x","c","e","e","d","e","d">>
MsgInvalid == <<"I","n","v","a","l","i","d"," ","i","m","a","g","e">>
MsgTooMany == <<"T","o","o"," ","m","a","n","y"," ","r","e","q","u","e","s","t","s">>
Messages == {MsgCapacity, MsgLimit, MsgInvalid, MsgTooMany}
Statuses == {400, 429, 500, 502}

\* What LaunchInstance can fail with.
LaunchErrors ==
    {ServiceErr(st, m) : st \in Statuses, m \in Messages} \cup {PlainErr("transport")}

\* strings.ToLower on the characters the messages use.
LowerChar(c) ==
    CASE c = "O" -> "o" [] c = "L" -> "l" [] c = "E" -> "e"
      [] c = "I" -> "i" [] c = "T" -> "t" [] OTHER -> c
ToLower(s) == [k \in 1..Len(s) |-> LowerChar(s[k])]

\* strings.Contains
Contains(s, sub) ==
    \E k \in 0..(Len(s) - Len(sub)) : SubSeq(s, k + 1, k + Len(sub)) = sub

\* common.IsServiceError
IsServiceError(e) == e.kind = "service"

\* ----------------------------------------------------------------- state
VARIABLES
    cfg,          \* main: the configuration in use
    pending,      \* reload() is blocked sending on the configUpdates channel
    Workers,      \* Provisioner.Workers: sequence of account aliases
    Provisioned,  \* Provisioner.Provisioned: aliases mapped to true
    clients,      \* workers whose API clients are initialised
    tracker,      \* notifier.Tracker counters
    cancelled,    \* the process context is Done
    cycleCount,   \* main: cycleCount
    pc,           \* position of the main goroutine
    i,            \* RunCycle: index of the worker being visited (1-based)
    ret,          \* what the last Provision call returned
    call,         \* the Provision call in progress: what it has done so far
    verify,       \* VerifyInstance: locals of the call in progress
    trace,        \* what RunCycle has done in the current cycle, in order
    apiLog,       \* <<account, operation>> API calls made in the current cycle
    prevLaunch,   \* per account: its last completed call launched an instance (1) or not (0)
    cancelAt,     \* set when cancellation is signalled during the delay
    mu,           \* Tracker.mu: "free", or the goroutine that holds it
    inc,          \* the Tracker.Inc* call in progress and its position
    snapshot,     \* the Tracker.Snapshot call in progress, and the last Stats returned
    reloaded,     \* a reloaded configuration has been applied
    lastOutcome,  \* per account: how its last Provision call under this configuration ended
    watcher,      \* the watcher goroutine: "watching", "loading" in reload(), or
                  \* "failed": watching again after a load that failed
    scheduler,    \* config.LoadConfig: the scheduler section of the file, and of
                  \* the Config the call returned
    launchedInstances, \* history: LaunchInstance requests answered with an instance
    runner        \* tui.ProvisionerRunner: running, paused, the stop channel and
                  \* the runLoop goroutines started so far

vars == <<cfg, pending, Workers, Provisioned, clients, tracker, cancelled,
          cycleCount, pc, i, ret, call, verify, trace, apiLog, prevLaunch,
          cancelAt, mu, inc, snapshot, reloaded, lastOutcome, watcher, scheduler,
          launchedInstances, runner>>

\* The variables of the goroutines that meet at Tracker.mu.
trackerVars == <<mu, inc, snapshot>>

\* tui.NewProvisionerRunner: not running, not paused, the stop channel open
\* (closes counts the close(r.stopChan) calls), no runLoop goroutine yet.
\* Headless mode makes no runner.
NewProvisionerRunner ==
    [running |-> FALSE, paused |-> FALSE, closes |-> 0, panicked |-> FALSE, loops |-> <<>>]

\* No configuration file has been handed to LoadConfig.
NotLoaded == [state |-> "none"]

NoRet == [success |-> FALSE, retryable |-> FALSE, err |-> NilErr, set |-> FALSE]
Ret(s, r, e) == [success |-> s, retryable |-> r, err |-> e, set |-> TRUE]

\* The outcome RunCycle sees for a returned tuple.
Outcome(r) == IF r.success THEN "ok" ELSE IF r.retryable THEN "retry" ELSE "err"

\* notifier.NewTracker.  Instants are numbered: StartTime is instant 0 and
\* the k-th call of IncSuccess reads the clock at instant k.
NewTracker == [TotalCycles |-> 0, CapacityErrors |-> 0, OtherErrors |-> 0,
               SuccessCount |-> 0, LastSuccessTime |-> 0]

\* History of one Provision call: the account, whether ListInstances was
\* called and whether it failed, what the existence check found, the
\* requests issued (before: the Tracker as the call found it), the local ad, the error LaunchInstance
\* answered (NilErr when none), the zone carried by the launch request.
NoCall == [acct |-> 0, listed |-> FALSE, listErr |-> FALSE, exists |-> FALSE,
           adQueries |-> 0,
           adList |-> <<>>, launches |-> 0, launched |-> FALSE, ad |-> "",
           lerr |-> NilErr, reqAD |-> "", expired |-> FALSE, alert |-> "none",
           before |-> NewTracker]

\* VerifyInstance locals: result (nil or a VerifiedInstance), polls done.
\* Addresses and instance ids are numbered; 0 is the empty string.
NilResult == [nil |-> TRUE, InstanceID |-> 0, DisplayName |-> "", Shape |-> "",
              State |-> "", OCPUs |-> 0, MemoryGB |-> 0,
              PublicIP |-> 0, PrivateIP |-> 0, SpecsMismatch |-> FALSE,
              Verified |-> FALSE, Errors |-> <<>>]
NewResult == [NilResult EXCEPT !.nil = FALSE]

\* What one GetInstance answered: lifecycle state, display name, shape name.
Observation(st, n, sh) == [state |-> st, name |-> n, shape |-> sh]
NoObservation == Observation("", "", "")

\* The call in progress: the result under construction, the error returned,
\* the loop iterations that ended in the sleep (polls), the GetInstance
\* calls made (gets), and what the API has answered so far: the last
\* observation, whether some poll reported RUNNING or a terminated state,
\* the shape configuration and the attachments of the running instance.
NoVerify == [result |-> NilResult, err |-> NilErr, polls |-> 0, returned |-> FALSE,
             gets |-> 0, last |-> NoObservation, sawRunning |-> FALSE,
             sawTerminal |-> FALSE, timedOut |-> FALSE, lateSleep |-> FALSE,
             shape |-> [ocpus |-> 0, mem |-> 0],
             resp |-> [failed |-> FALSE, items |-> <<>>]]

\* Mutant: IncCapacity counts the error as an other error too.
IncCapacity_AndError(t) == [t EXCEPT !.CapacityErrors = @ + 1, !.OtherErrors = @ + 1]

\* Mutant: IncCycle forgets the increment.
IncCycle_Forgotten(t) == t

\* Mutant: IncSuccess counts the instance twice.
IncSuccessCount_Twice(t) == [t EXCEPT !.SuccessCount = @ + 2]

\* Tracker.IncCycle, IncCapacity, IncError, IncSuccess
IncCycle(t) == [t EXCEPT !.TotalCycles = @ + 1]
IncCapacity(t) == [t EXCEPT !.CapacityErrors = @ + 1]
IncError(t) == [t EXCEPT !.OtherErrors = @ + 1]
IncSuccessCount(t) == [t EXCEPT !.SuccessCount = @ + 1]
SetLastSuccessTime(t) == [t EXCEPT !.LastSuccessTime = t.SuccessCount]
IncSuccess(t) == SetLastSuccessTime(IncSuccessCount(t))

\* No Inc* call in progress; no Snapshot call in progress and none returned.
\* stats is the Stats being built, copied the number of fields copied, last
\* and prev the Stats returned by the last call and by the one before, at
\* the Tracker at the moment Snapshot took the lock, contended whether an
\* Inc* call was waiting for the lock when Snapshot released it.
NoInc == [op |-> "none", step |-> "none"]
NoSnapshot == [step |-> "none", stats |-> NewTracker, copied |-> 0,
               last |-> NewTracker, prev |-> NewTracker, at |-> NewTracker,
               contended |-> FALSE]

\* All orders in which Go's map iteration can deliver the enabled accounts.
Orders(S) ==
    {s \in [1..Cardinality(S) -> S] : \A j, k \in 1..Cardinality(S) : j # k => s[j] # s[k]}

\* One entry of the cycle's trace: the account visited, what RunCycle did
\* with it ("skip", "provision" while the call runs, then its outcome "ok",
\* "retry" or "err"), and whether the alias was in Provisioned at the visit.
\* A "sleep" entry is the inter-account delay.
Event(a, k, p) == [acct |-> a, kind |-> k, prov |-> p]
SleepEvent == Event(0, "sleep", FALSE)

\* Set when the signal arrives while RunCycle waits out the delay: the
\* number of trace entries and the cycle at that moment.
NotCancelled == [inDelay |-> FALSE, events |-> 0, cycle |-> 0]

\* main: load the configuration, provisioner.New, cycleCount := 1
InitProgram ==
    /\ cfg \in Configs
    /\ pending = FALSE
    /\ Workers \in Orders(cfg.enabled)
    /\ Provisioned = {}
    /\ clients = {}
    /\ tracker = NewTracker
    /\ cancelled = FALSE
    /\ cycleCount = 1
    /\ pc = "start"
    /\ i = 0
    /\ ret = NoRet
    /\ call = NoCall
    /\ verify = NoVerify
    /\ trace = <<>>
    /\ apiLog = {}
    /\ prevLaunch = [a \in Accounts |-> 0]
    /\ cancelAt = NotCancelled
    /\ mu = "free"
    /\ inc = NoInc
    /\ snapshot = NoSnapshot
    /\ reloaded = FALSE
    /\ lastOutcome = [a \in Accounts |-> "none"]
    /\ watcher = "watching"
    /\ launchedInstances = 0

Init ==
    /\ InitProgram
    /\ scheduler = NotLoaded
    /\ runner = NewProvisionerRunner

\* ------------------------------------------------------------ environment
\* SIGINT/SIGTERM: signal.NotifyContext cancels the process context.
Cancel ==
    /\ ~cancelled
    /\ pc \notin {"exited", "crashed"}
    /\ cancelled' = TRUE
    /\ cancelAt' = IF pc = "delay"
                   THEN [inDelay |-> TRUE, events |-> Len(trace),
                         cycle |-> tracker.TotalCycles]
                   ELSE NotCancelled
    /\ UNCHANGED <<cfg, pending, Workers, Provisioned, clients, tracker,
                   cycleCount, pc, i, ret, call, verify, trace, apiLog, prevLaunch,
                   trackerVars, runner, scheduler, launchedInstances, reloaded, lastOutcome, watcher>>

\* The watcher goroutine sees the file change (fsnotify event or poller)
\* and calls reload().
Reload ==
    /\ pc \notin {"exited", "crashed"}
    /\ ~cancelled
    /\ ~pending
    /\ watcher \in {"watching", "failed"}
    /\ watcher' = "loading"
    /\ UNCHANGED <<cfg, pending, Workers, Provisioned, clients, tracker, cancelled,
                   cycleCount, pc, i, ret, call, verify, trace, apiLog, prevLaunch,
                   cancelAt,
                   trackerVars, runner, scheduler, launchedInstances, reloaded, lastOutcome>>

\* Mutant: reload() sends what LoadConfig returned, error or not.
LoadFailureSends_Always(ok) == TRUE

\* reload(): if err != nil { log; return }; updates <- newCfg
LoadFailureSends(ok) == ok

\* reload(): config.LoadConfig(path) succeeds (ok) or fails.  On success
\* reload() blocks sending the value on the unbuffered channel; the value
\* in flight is seen by nobody until main receives it, so it is drawn
\* there.  On failure the error is logged and reload() returns.
ReloadLoadConfig ==
    /\ pc \notin {"exited", "crashed"}
    /\ watcher = "loading"
    /\ \E ok \in BOOLEAN :
          /\ pending' = LoadFailureSends(ok)
          /\ watcher' = IF ok THEN "watching" ELSE "failed"
    /\ UNCHANGED <<cfg, Workers, Provisioned, clients, tracker, cancelled,
                   cycleCount, pc, i, ret, call, verify, trace, apiLog, prevLaunch,
                   cancelAt,
                   trackerVars, runner, scheduler, launchedInstances, reloaded, lastOutcome>>

\* -------------------------------------------------------------- main loop
\* The defaults LoadConfig applies: the cycle interval in seconds, and the
\* retry section's base and maximum intervals in minutes.
CycleIntervalSeconds == 900
BaseIntervalMinutes == 15
MaxIntervalMinutes == 120

\* interval := cfg.Scheduler.CycleIntervalSeconds; ticker := NewTicker(interval):
\* the wait before the next cycle, whatever number of launches failed so
\* far; the retry section of the configuration is read nowhere.
TickerInterval(failures) == CycleIntervalSeconds

\* Mutant: the ticker starts a cycle while the previous one sleeps between
\* two accounts.
CycleMayStart_InDelay == pc \in {"start", "loop", "delay"}

\* Mutant: only the first cycle is ever run.
CycleMayStart_OnlyFirst == pc = "start"

\* main calls runCycle itself, before the loop and in the ticker case of
\* its select: only when no cycle is running.
CycleMayStart == pc \in {"start", "loop"}

\* The first cycle runs at once; later ones when the ticker fires.  RunCycle
\* begins with Tracker.IncCycle and enters its loop over the workers.
MainRunCycle ==
    /\ CycleMayStart
    /\ cycleCount <= MaxCycles
    /\ tracker' = IncCycle(tracker)
    /\ i' = 1
    /\ pc' = IF Len(Workers) = 0 THEN "done" ELSE "visit"
    /\ trace' = <<>>
    /\ apiLog' = {}
    /\ UNCHANGED <<cfg, pending, Workers, Provisioned, clients, cancelled,
                   cycleCount, ret, call, verify, prevLaunch, cancelAt,
                   trackerVars, runner, scheduler, launchedInstances, reloaded, lastOutcome, watcher>>

\* runCycle after RunCycle has returned: log, then cycleCount++ in main.
MainCycleFinished ==
    /\ pc = "done"
    /\ cycleCount' = cycleCount + 1
    /\ pc' = "loop"
    /\ i' = 0
    /\ trace' = <<>>
    /\ apiLog' = {}
    /\ UNCHANGED <<cfg, pending, Workers, Provisioned, clients, tracker,
                   cancelled, ret, call, verify, prevLaunch, cancelAt,
                   trackerVars, runner, scheduler, launchedInstances, reloaded, lastOutcome, watcher>>

\* provisioner.New: a worker per enabled account, an empty Provisioned map.
New(c, order) ==
    /\ Workers' = order
    /\ Provisioned' = {}
    /\ clients' = {}

\* Mutant: the new Provisioner is given a new Tracker.
ReloadTracker_Fresh(t) == NewTracker

\* prov = provisioner.New(cfg, l, tracker): the Tracker made at startup is
\* handed to the new Provisioner and its workers.
ReloadTracker(t) == t

\* Mutant: the channel is also read while a cycle runs.
ReloadMayApply_InCycle == pc \in {"loop", "visit", "delay"}

\* The channel is read by the select of the main loop only, which main
\* reaches when no runCycle call is in progress.
ReloadMayApply == pc = "loop"

\* case newCfg := <-configUpdates
MainApplyReload ==
    /\ ReloadMayApply
    /\ pending
    /\ pending' = FALSE
    /\ \E newCfg \in Configs :
          /\ cfg' = newCfg
          /\ \E order \in Orders(newCfg.enabled) : New(newCfg, order)
    /\ tracker' = ReloadTracker(tracker)
    /\ reloaded' = TRUE
    /\ lastOutcome' = [a \in Accounts |-> "none"]
    /\ UNCHANGED <<cancelled, cycleCount, pc, i, ret, call, verify,
                   trace, apiLog, prevLaunch, cancelAt, trackerVars, runner, scheduler, launchedInstances, watcher>>

\* case <-ctx.Done()
MainExit ==
    /\ pc = "loop"
    /\ cancelled
    /\ pc' = "exited"
    /\ UNCHANGED <<cfg, pending, Workers, Provisioned, clients, tracker,
                   cancelled, cycleCount, i, ret, call, verify, trace, apiLog,
                   prevLaunch, cancelAt,
                   trackerVars, runner, scheduler, launchedInstances, reloaded, lastOutcome, watcher>>

\* --------------------------------------------------------------- RunCycle
\* Mutant: the loop body does not look at ctx.Done().
VisitCancelled_Never == FALSE

\* The select at the top of the loop body.
VisitCancelled == cancelled

\* Mutant: the skip check is missing.
IsProvisioned_Never(a) == FALSE

\* p.Provisioned[worker.AccountName]
IsProvisioned(a) == a \in Provisioned

\* The loop moves to worker k, or RunCycle returns after the last one.
NextWorker(k) ==
    /\ i' = k
    /\ pc' = IF k > Len(Workers) THEN "done" ELSE "visit"

\* Top of the loop body: cancellation check, skip check, else call Provision.
RunCycleVisit ==
    /\ pc = "visit"
    /\ LET a == Workers[i] IN
       IF VisitCancelled
       THEN /\ pc' = "done"
            /\ UNCHANGED <<i, trace, call, ret, verify>>
       ELSE IF IsProvisioned(a)
       THEN /\ trace' = Append(trace, Event(a, "skip", a \in Provisioned))
            /\ NextWorker(i + 1)
            /\ UNCHANGED <<call, ret, verify>>
       ELSE /\ trace' = Append(trace, Event(a, "provision", a \in Provisioned))
            /\ call' = [NoCall EXCEPT !.acct = a, !.before = tracker]
            /\ ret' = NoRet
            /\ verify' = NoVerify
            /\ pc' = "checkExisting"
            /\ UNCHANGED i
    /\ UNCHANGED <<cfg, pending, Workers, Provisioned, clients, tracker,
                   cancelled, cycleCount, apiLog, prevLaunch, cancelAt,
                   trackerVars, runner, scheduler, launchedInstances, reloaded, lastOutcome, watcher>>

\* Mutant: the account is marked whatever Provision returned.
MarkProvisioned_Always(a, success) == Provisioned \cup {a}

\* if success { p.Provisioned[worker.AccountName] = true }
MarkProvisioned(a, success) == IF success THEN Provisioned \cup {a} ELSE Provisioned

\* Mutant: the delay also follows the last worker.
ShouldSleep_AfterLast(k) == cfg.delay > 0

\* i < len(p.Workers)-1 && AccountDelaySeconds > 0
ShouldSleep(k) == k < Len(Workers) /\ cfg.delay > 0

\* Mutant: an error from Provision ends the cycle.
ErrorEndsCycle_OnError(r) == r.err # NilErr

\* if err != nil { p.Logger.Error(...) }: the error is logged, the loop goes on.
ErrorEndsCycle(r) == FALSE

\* After Provision has returned: log the error, mark the account, then
\* either enter the delay or go on to the next worker.
RunCycleAfterProvision ==
    /\ pc = "returned"
    /\ Provisioned' = MarkProvisioned(Workers[i], ret.success)
    /\ IF ErrorEndsCycle(ret)
       THEN /\ pc' = "done"
            /\ UNCHANGED <<i, trace>>
       ELSE IF ShouldSleep(i)
       THEN /\ pc' = "delay"
            /\ trace' = Append(trace, SleepEvent)
            /\ UNCHANGED i
       ELSE /\ NextWorker(i + 1)
            /\ UNCHANGED trace
    /\ prevLaunch' = [prevLaunch EXCEPT ![call.acct] = IF call.launched THEN 1 ELSE 0]
    /\ lastOutcome' = [lastOutcome EXCEPT ![call.acct] = Outcome(ret)]
    /\ ret' = NoRet
    /\ call' = NoCall
    /\ verify' = NoVerify
    /\ UNCHANGED <<cfg, pending, Workers, clients, tracker, cancelled,
                   cycleCount, apiLog, cancelAt,
                   trackerVars, runner, scheduler, launchedInstances, reloaded, watcher>>

\* The select of the delay: ctx.Done() returns, time.After continues.
\* When both are ready Go picks either.
DelayCancelled == cancelled

\* The signal arrived while RunCycle was waiting in the present delay.
SignalledInThisDelay ==
    /\ cancelAt.inDelay
    /\ cancelAt.cycle = tracker.TotalCycles
    /\ cancelAt.events = Len(trace)

\* case <-time.After(delay): the timer fires while the context is live, or
\* at the moment the signal arrives, when select picks one of two ready
\* cases; a context already Done when the select starts wins over the timer.
DelayElapsed == ~cancelled \/ SignalledInThisDelay

\* select { case <-ctx.Done(): return; case <-time.After(delay): }
RunCycleDelay ==
    /\ pc = "delay"
    /\ \/ /\ DelayCancelled
          /\ pc' = "done"
          /\ UNCHANGED i
       \/ /\ DelayElapsed
          /\ NextWorker(i + 1)
    /\ UNCHANGED <<cfg, pending, Workers, Provisioned, clients, tracker,
                   cancelled, cycleCount, ret, call, verify, trace, apiLog,
                   prevLaunch, cancelAt,
                   trackerVars, runner, scheduler, launchedInstances, reloaded, lastOutcome, watcher>>

\* -------------------------------------------------------------- Provision
\* A call of Provision is in progress.
InProvision ==
    pc \in {"checkExisting", "resolveAD", "launch", "verify", "getInstance", "pollSleep"}

\* The 60 seconds of the attempt's context pass; the timer runs from the
\* entry of Provision to its return, the verification included.
AttemptTimeout ==
    /\ InProvision
    /\ ~call.expired
    /\ call' = [call EXCEPT !.expired = TRUE]
    /\ UNCHANGED <<cfg, pending, Workers, Provisioned, clients, tracker, cancelled,
                   cycleCount, pc, i, ret, verify, trace, apiLog, prevLaunch,
                   cancelAt,
                   trackerVars, runner, scheduler, launchedInstances, reloaded, lastOutcome, watcher>>

\* ListInstances, ListAvailabilityDomains and LaunchInstance are given ctx,
\* the process context with the attempt's deadline; the SDK's HTTP client
\* fails a request whose context is Done.
CtxDone == cancelled \/ call.expired

\* What ListInstances can answer: an error, or up to two instances with the
\* configured display name.
ListResponses ==
    {<<>>} \cup {<<s>> : s \in LifecycleStates}
           \cup {<<s, t>> : s \in LifecycleStates, t \in LifecycleStates}

ActiveStates == {"RUNNING", "PROVISIONING", "STARTING"}

\* The response holds an instance in an active state.
HasActive(items) == \E k \in 1..Len(items) : items[k] \in ActiveStates

\* checkExisting's loop over resp.Items, from item k on.
RECURSIVE checkExistingFrom(_, _)
checkExistingFrom(items, k) ==
    IF k > Len(items) THEN FALSE
    ELSE IF \/ items[k] = "RUNNING"
            \/ items[k] = "PROVISIONING"
            \/ items[k] = "STARTING"
         THEN TRUE
         ELSE checkExistingFrom(items, k + 1)

\* Mutant: only a RUNNING instance counts as existing.
checkExisting_RunningOnly(items) == \E k \in 1..Len(items) : items[k] = "RUNNING"

checkExisting(items) == checkExistingFrom(items, 1)

\* Provision returns r to RunCycle.
Return(r) ==
    /\ ret' = r
    /\ pc' = "returned"
    /\ trace' = [trace EXCEPT ![Len(trace)].kind = Outcome(r)]

\* Mutant: the launch is attempted whatever the existence check found.
StopsOnExisting_Never(existing) == FALSE

\* if existing { return true, false, nil }
StopsOnExisting(existing) == existing

\* Provision up to the existence check: initClients, then checkExisting.
ProvisionCheckExisting ==
    /\ pc = "checkExisting"
    /\ LET a == call.acct IN
       \/ \* initClients fails (key file unreadable); nothing is cached
          /\ a \notin clients
          /\ call' = call
          /\ Return(Ret(FALSE, FALSE, PlainErr("initClients")))
          /\ UNCHANGED <<clients, apiLog>>
       \/ \* ListInstances fails
          /\ clients' = clients \cup {a}
          /\ apiLog' = apiLog \cup {<<a, "ListInstances">>}
          /\ call' = [call EXCEPT !.listed = TRUE, !.listErr = TRUE]
          /\ Return(Ret(FALSE, FALSE, PlainErr("listInstances")))
       \/ \E items \in ListResponses :
             /\ ~CtxDone
             /\ clients' = clients \cup {a}
             /\ apiLog' = apiLog \cup {<<a, "ListInstances">>}
             /\ IF StopsOnExisting(checkExisting(items))
                THEN /\ call' = [call EXCEPT !.listed = TRUE, !.exists = HasActive(items)]
                     /\ Return(Ret(TRUE, FALSE, NilErr))
                ELSE /\ call' = [call EXCEPT !.listed = TRUE, !.exists = HasActive(items),
                                              !.ad = AvailabilityDomain(a)]
                     /\ pc' = IF AvailabilityDomain(a) = "auto" THEN "resolveAD" ELSE "launch"
                     /\ UNCHANGED <<ret, trace>>
    /\ UNCHANGED <<cfg, pending, Workers, Provisioned, tracker, cancelled,
                   cycleCount, i, verify, prevLaunch, cancelAt,
                   trackerVars, runner, scheduler, launchedInstances, reloaded, lastOutcome, watcher>>

\* What ListAvailabilityDomains can answer besides an error.
ADLists == {<<>>, <<"AD-1">>, <<"AD-1", "AD-2">>, <<"AD-2", "AD-1">>}

\* Mutant: the last zone of the list is taken.
PickAD_Last(items) == items[Len(items)]

\* ad = *resp.Items[0].Name
PickAD(items) == items[1]

\* The "auto" branch: ListAvailabilityDomains and the choice of the zone.
ProvisionResolveAD ==
    /\ pc = "resolveAD"
    /\ apiLog' = apiLog \cup {<<call.acct, "ListAvailabilityDomains">>}
    /\ \/ /\ call' = [call EXCEPT !.adQueries = @ + 1]
          /\ Return(Ret(FALSE, FALSE, PlainErr("listADs")))
       \/ \E items \in ADLists :
             /\ ~CtxDone
             /\ IF Len(items) = 0
                THEN /\ call' = [call EXCEPT !.adQueries = @ + 1, !.adList = items]
                     /\ Return(Ret(FALSE, FALSE, PlainErr("noADs")))
                ELSE /\ call' = [call EXCEPT !.adQueries = @ + 1, !.adList = items,
                                              !.ad = PickAD(items)]
                     /\ pc' = "launch"
                     /\ UNCHANGED <<ret, trace>>
    /\ UNCHANGED <<cfg, pending, Workers, Provisioned, clients, tracker,
                   cancelled, cycleCount, i, verify, prevLaunch, cancelAt,
                   trackerVars, runner, scheduler, launchedInstances, reloaded, lastOutcome, watcher>>

\* Mutant: the message is searched without lowering its case.
Classify_CaseSensitive(e) ==
    IF IsServiceError(e)
    THEN IF \/ e.status = StatusCapacity
            \/ Contains(e.msg, <<"c","a","p","a","c","i","t","y">>)
            \/ Contains(e.msg, <<"l","i","m","i","t">>)
         THEN "capacity"
         ELSE IF e.status = StatusRateLimit THEN "ratelimit" ELSE "other"
    ELSE "other"

\* Mutant: status 429 gets no branch of its own.
Classify_NoRateLimit(e) ==
    IF IsServiceError(e)
    THEN IF \/ e.status = StatusCapacity
            \/ Contains(ToLower(e.msg), <<"c","a","p","a","c","i","t","y">>)
            \/ Contains(ToLower(e.msg), <<"l","i","m","i","t">>)
         THEN "capacity"
         ELSE "other"
    ELSE "other"

\* Mutant: every structured error that is not capacity is retried.
Classify_ServiceRetryable(e) ==
    IF IsServiceError(e)
    THEN IF \/ e.status = StatusCapacity
            \/ Contains(ToLower(e.msg), <<"c","a","p","a","c","i","t","y">>)
            \/ Contains(ToLower(e.msg), <<"l","i","m","i","t">>)
         THEN "capacity"
         ELSE "ratelimit"
    ELSE "other"

\* The classification of a launch error: "capacity", "ratelimit" or "other".
Classify(e) ==
    IF IsServiceError(e)
    THEN IF \/ e.status = StatusCapacity
            \/ Contains(ToLower(e.msg), <<"c","a","p","a","c","i","t","y">>)
            \/ Contains(ToLower(e.msg), <<"l","i","m","i","t">>)
         THEN "capacity"
         ELSE IF e.status = StatusRateLimit THEN "ratelimit" ELSE "other"
    ELSE "other"

\* Mutant: a retryable failure hands the launch error to the caller too.
RetryableResult_WithErr(e) == Ret(FALSE, TRUE, e)

\* return false, true, nil: what Provision returns for a retryable launch
\* error e.
RetryableResult(e) == Ret(FALSE, TRUE, NilErr)

\* LaunchInstance and, when it fails, the handling of the error.
ProvisionLaunch ==
    /\ pc = "launch"
    /\ apiLog' = apiLog \cup {<<call.acct, "LaunchInstance">>}
    /\ \/ \* the instance is launched: VerifyInstance is entered
          /\ ~CtxDone
          /\ call' = [call EXCEPT !.launches = @ + 1, !.launched = TRUE,
                                   !.reqAD = call.ad]
          /\ verify' = [NoVerify EXCEPT !.result = [NewResult EXCEPT !.InstanceID = call.acct]]
          /\ pc' = "verify"
          /\ UNCHANGED <<tracker, ret, trace>>
       \/ \E e \in LaunchErrors :
             /\ CtxDone => ~IsServiceError(e)
             /\ call' = [call EXCEPT !.launches = @ + 1, !.lerr = e,
                                      !.reqAD = call.ad]
             /\ UNCHANGED verify
             /\ CASE Classify(e) = "capacity" ->
                        /\ tracker' = IncCapacity(tracker)
                        /\ Return(RetryableResult(e))
                  [] Classify(e) = "ratelimit" ->
                        /\ tracker' = IncError(tracker)
                        /\ Return(RetryableResult(e))
                  [] OTHER ->
                        /\ tracker' = IncError(tracker)
                        /\ Return(Ret(FALSE, FALSE, e))
    /\ launchedInstances' = launchedInstances + (IF call'.launched THEN 1 ELSE 0)
    /\ UNCHANGED <<cfg, pending, Workers, Provisioned, clients, cancelled,
                   cycleCount, i, prevLaunch, cancelAt,
                   trackerVars, runner, scheduler, reloaded, lastOutcome, watcher>>

\* --------------------------------------------------------- VerifyInstance
\* instance.ShapeConfig as GetInstance reports it; 0 stands for a value the
\* response does not hold (a nil pointer, or no ShapeConfig at all).
Shape(c, m) == [ocpus |-> c, mem |-> m]

\* The requested shape, or one with fewer OCPUs.
Shapes == {Shape(RequestedOCPUs, RequestedMemoryGB), Shape(2, RequestedMemoryGB)}

\* Every combination of a matching, a smaller and an absent value.
AllShapes == {Shape(c, m) : c \in {RequestedOCPUs, 2, 0}, m \in {RequestedMemoryGB, 12, 0}}

\* instance.DisplayName and instance.Shape as one GetInstance reports them.
View(n, sh) == [name |-> n, shape |-> sh]
Views == {View("arm-instance", "VM.Standard.A1.Flex")}
AllViews == Views \cup {View("renamed", "VM.Standard.E2.1.Micro")}

\* A VNIC attachment (VnicId set or nil, its lifecycle state) and what
\* GetVnic answers for it: an error, or a VNIC holding a private address, a
\* public address, or both.
Att(id, st, v) == [hasId |-> id, state |-> st, vnic |-> v]

\* What ListVnicAttachments can answer: a failure, or a list of attachments.
VnicResponse(f, l) == [failed |-> f, items |-> l]
VnicResponses ==
    {VnicResponse(TRUE, <<>>),
     VnicResponse(FALSE, <<Att(TRUE, "ATTACHED", "both")>>),
     VnicResponse(FALSE, <<Att(TRUE, "ATTACHED", "err"), Att(TRUE, "ATTACHED", "both")>>)}

\* Every list of up to two attachments.
Attachments ==
    {Att(id, st, v) : id \in BOOLEAN, st \in {"ATTACHED", "DETACHED"},
                      v \in {"err", "private", "public", "both"}}
AllVnicResponses ==
    {VnicResponse(TRUE, <<>>), VnicResponse(FALSE, <<>>)}
        \cup {VnicResponse(FALSE, <<x>>) : x \in Attachments}
        \cup {VnicResponse(FALSE, <<x, y>>) : x \in Attachments, y \in Attachments}

\* Mutant: only a differing OCPU count is a mismatch.
VerifyShape_OcpusOnly(r, shape) ==
    LET r1 == [r EXCEPT !.OCPUs = IF shape.ocpus # 0 THEN shape.ocpus ELSE @,
                        !.MemoryGB = IF shape.mem # 0 THEN shape.mem ELSE @]
    IN  IF r1.OCPUs # RequestedOCPUs
        THEN [r1 EXCEPT !.SpecsMismatch = TRUE, !.Errors = Append(@, "OCPUs mismatch")]
        ELSE r1

\* Step 2: copy the actual shape where the response holds it and compare it
\* with the requested one.
VerifyShape(r, shape) ==
    LET r1 == [r EXCEPT !.OCPUs = IF shape.ocpus # 0 THEN shape.ocpus ELSE @,
                        !.MemoryGB = IF shape.mem # 0 THEN shape.mem ELSE @]
        r2 == IF r1.OCPUs # RequestedOCPUs
              THEN [r1 EXCEPT !.SpecsMismatch = TRUE, !.Errors = Append(@, "OCPUs mismatch")]
              ELSE r1
    IN  IF r2.MemoryGB # RequestedMemoryGB
        THEN [r2 EXCEPT !.SpecsMismatch = TRUE, !.Errors = Append(@, "Memory mismatch")]
        ELSE r2

\* Mutant: a failed GetVnic ends the loop.
VnicLookupFailed_Break(r, atts, k) == r

\* Step 3: the loop over the attachments, from attachment k on.  The
\* address of attachment k is the number k.
RECURSIVE VerifyVnicFrom(_, _, _)

\* if err != nil { append; continue }: the loop goes on with the next one.
VnicLookupFailed(r, atts, k) == VerifyVnicFrom(r, atts, k + 1)

VerifyVnicFrom(r, atts, k) ==
    IF k > Len(atts) THEN r
    ELSE IF atts[k].hasId /\ atts[k].state = "ATTACHED"
         THEN IF atts[k].vnic = "err"
              THEN VnicLookupFailed([r EXCEPT !.Errors = Append(@, "GetVnic failed")], atts, k)
              ELSE [r EXCEPT !.PublicIP = IF atts[k].vnic \in {"both", "public"} THEN k ELSE @,
                             !.PrivateIP = IF atts[k].vnic \in {"both", "private"} THEN k ELSE @]
         ELSE VerifyVnicFrom(r, atts, k + 1)

\* Step 3: ListVnicAttachments, then the loop when it answered a list.
VerifyVnic(r, resp) ==
    IF resp.failed THEN [r EXCEPT !.Errors = Append(@, "ListVnicAttachments failed")]
    ELSE VerifyVnicFrom(r, resp.items, 1)

\* Mutant: any recorded discrepancy clears the flag.
MarkVerified_Strict(r) == [r EXCEPT !.Verified = Len(r.Errors) = 0]

\* result.Verified = len(Errors) == 0 || (len(Errors) > 0 && !SpecsMismatch && State == "RUNNING")
MarkVerified(r) ==
    [r EXCEPT !.Verified = \/ Len(r.Errors) = 0
                           \/ (Len(r.Errors) > 0 /\ ~r.SpecsMismatch /\ r.State = "RUNNING")]

\* The lifecycle states GetInstance reports for the launched instance.
PollStates == {"PROVISIONING", "RUNNING", "TERMINATING", "TERMINATED"}

\* Mutant: verifyCtx is derived from the attempt's context.
VerifyCtxDone_FromAttempt == cancelled \/ call.expired

\* verifyCtx, the process context with a deadline that falls after the
\* polling ceiling, is Done; VerifyInstance and its API calls are given it.
VerifyCtxDone == cancelled

\* The select at the top of the polling loop.
VerifyCancelled == VerifyCtxDone

\* Mutant: the sleep between two polls never ends.
PollSleepEnds_Never == FALSE

\* time.Sleep returns after the interval, cancelled or not.
PollSleepEnds == TRUE

\* Mutant: only TERMINATED ends the polling.
IsTerminal_TerminatedOnly(st) == st = "TERMINATED"

\* LifecycleState == Terminated || LifecycleState == Terminating
IsTerminal(st) == st = "TERMINATED" \/ st = "TERMINATING"

\* Mutant: the fields of a poll are not copied into the result.
Observe_StateOnly(r, o) == [r EXCEPT !.State = o.state]

\* result.State, result.DisplayName, result.Shape = what the poll answered
Observe(r, o) == [r EXCEPT !.State = o.state, !.DisplayName = o.name, !.Shape = o.shape]

\* Logger.Celebrate asserts details to an interface and calls its getters:
\* a nil *VerifiedInstance passes the assertion and the getter dereferences
\* it, which panics.
CelebratePanics(r) == r.nil

\* What Notifier.SendSuccessVerified returns: nil or an error.
AlertOutcomes == {"sent", "failed"}

\* Mutant: a failed notification makes Provision return the error.
AlertEscalates_OnFailure(alert) == alert = "failed"

\* if err := w.Notifier.SendSuccessVerified(...); err != nil { Logger.Error }
\* the error is logged and Provision goes on to its return.
AlertEscalates(alert) == FALSE

\* Provision after VerifyInstance has returned r: warning, IncSuccess,
\* Celebrate, the success notification, return (true, false, nil).
ProvisionFinish(r) ==
    /\ tracker' = IncSuccess(tracker)
    /\ IF CelebratePanics(r)
       THEN /\ pc' = "crashed"
            /\ UNCHANGED <<ret, trace, call>>
       ELSE \E alert \in AlertOutcomes :
               /\ call' = [call EXCEPT !.alert = alert]
               /\ IF AlertEscalates(alert)
                  THEN Return(Ret(FALSE, FALSE, PlainErr("notification")))
                  ELSE Return(Ret(TRUE, FALSE, NilErr))

\* VerifyInstance, its locals being v, returns (r, e) to Provision, which
\* runs to its end.
VerifyReturn(v, r, e) ==
    /\ verify' = [v EXCEPT !.result = r, !.err = e, !.returned = TRUE]
    /\ ProvisionFinish(r)

\* The head of the polling loop: the deadline test, then the select on
\* ctx.Done().  The deadline has not passed on entry and has passed after
\* MaxPolls polls.
VerifyPoll ==
    /\ pc = "verify"
    /\ \E before \in BOOLEAN :
          /\ verify.polls = 0 => before
          /\ verify.polls >= MaxPolls => ~before
          /\ IF ~before
             THEN VerifyReturn([verify EXCEPT !.timedOut = TRUE],
                               [verify.result EXCEPT !.Errors = Append(@, "Timeout")],
                               PlainErr("timeout"))
             ELSE IF VerifyCancelled
             THEN VerifyReturn(verify, NilResult, PlainErr("context"))
             ELSE /\ pc' = "getInstance"
                  /\ UNCHANGED <<verify, tracker, ret, trace, call>>
    /\ UNCHANGED <<cfg, pending, Workers, Provisioned, clients, cancelled,
                   cycleCount, i, apiLog, prevLaunch, cancelAt,
                   trackerVars, runner, scheduler, launchedInstances, reloaded, lastOutcome, watcher>>

\* GetInstance answers and the loop body handles the answer: a failure or a
\* state that is neither RUNNING nor terminated leads to the sleep; a
\* terminated state returns; RUNNING leaves the loop and VerifyInstance
\* runs to its end.  The API draws its answers from views, shapes and
\* resps; a request whose context is Done fails.
VerifyGetInstanceWith(views, shapes, resps) ==
    /\ pc = "getInstance"
    /\ apiLog' = apiLog \cup {<<call.acct, "GetInstance">>}
    /\ \/ \* GetInstance fails
          /\ verify' = [verify EXCEPT !.gets = @ + 1, !.lateSleep = VerifyCtxDone,
                           !.result.Errors = Append(@, "GetInstance failed")]
          /\ pc' = "pollSleep"
          /\ UNCHANGED <<tracker, ret, trace, call>>
       \/ \E st \in PollStates \ {"RUNNING"}, w \in views :
            LET o == Observation(st, w.name, w.shape)
                r == Observe(verify.result, o)
                v == [verify EXCEPT !.gets = @ + 1, !.last = o,
                         !.sawTerminal = @ \/ st \in {"TERMINATED", "TERMINATING"}]
            IN
            /\ ~VerifyCtxDone
            /\ IF IsTerminal(st)
               THEN VerifyReturn(v, [r EXCEPT !.Errors = Append(@, "Terminated")],
                                 PlainErr("terminated"))
               ELSE /\ verify' = [v EXCEPT !.result = r, !.lateSleep = FALSE]
                    /\ pc' = "pollSleep"
                    /\ UNCHANGED <<tracker, ret, trace, call>>
       \/ \E w \in views, shape \in shapes, resp \in resps :
            LET o == Observation("RUNNING", w.name, w.shape)
                r == Observe(verify.result, o)
                v == [verify EXCEPT !.gets = @ + 1, !.last = o,
                         !.sawRunning = TRUE, !.shape = shape, !.resp = resp]
            IN
            /\ ~VerifyCtxDone
            /\ VerifyReturn(v, MarkVerified(VerifyVnic(VerifyShape(r, shape), resp)),
                            NilErr)
    /\ UNCHANGED <<cfg, pending, Workers, Provisioned, clients, cancelled,
                   cycleCount, i, prevLaunch, cancelAt,
                   trackerVars, runner, scheduler, launchedInstances, reloaded, lastOutcome, watcher>>

\* time.Sleep(pollInterval): the sleep ends when the interval has passed,
\* whatever the context; then the loop goes back to its head.
VerifySleep ==
    /\ pc = "pollSleep"
    /\ PollSleepEnds
    /\ verify' = [verify EXCEPT !.polls = @ + 1]
    /\ pc' = "verify"
    /\ UNCHANGED <<cfg, pending, Workers, Provisioned, clients, tracker, cancelled,
                   cycleCount, i, ret, call, trace, apiLog, prevLaunch, cancelAt,
                   trackerVars, runner, scheduler, launchedInstances, reloaded, lastOutcome, watcher>>

\* VerifyInstance as the provisioning cycle runs it.
VerifyGetInstance == VerifyGetInstanceWith(Views, Shapes, VnicResponses)

\* VerifyInstance against every answer of the API.
VerifyGetInstanceAll == VerifyGetInstanceWith(AllViews, AllShapes, AllVnicResponses)

Next ==
    \/ Cancel
    \/ Reload
    \/ ReloadLoadConfig
    \/ MainRunCycle
    \/ MainCycleFinished
    \/ MainApplyReload
    \/ MainExit
    \/ RunCycleVisit
    \/ RunCycleAfterProvision
    \/ RunCycleDelay
    \/ ProvisionCheckExisting
    \/ ProvisionResolveAD
    \/ ProvisionLaunch
    \/ VerifyPoll
    \/ VerifyGetInstance
    \/ VerifySleep
    \/ AttemptTimeout

Spec == Init /\ [][Next]_vars

\* The steps of the main goroutine while the configuration file is left
\* alone.
ProgramStep ==
    \/ MainRunCycle
    \/ MainCycleFinished
    \/ MainExit
    \/ RunCycleVisit
    \/ RunCycleAfterProvision
    \/ RunCycleDelay
    \/ ProvisionCheckExisting
    \/ ProvisionResolveAD
    \/ ProvisionLaunch
    \/ VerifyPoll
    \/ VerifyGetInstance
    \/ VerifySleep

\* The program, its configuration file left alone, under a scheduler that
\* lets the main goroutine run: every
\* call it makes returns and every wait it is in ends; the ticker fires
\* while main waits in its select, and the select, which picks at random
\* among ready cases, does not pass over ctx.Done() for ever.
LiveNext ==
    \/ Cancel
    \/ AttemptTimeout
    \/ ProgramStep

LiveSpec ==
    /\ Init
    /\ [][LiveNext]_vars
    /\ WF_vars(ProgramStep)
    /\ WF_vars(MainRunCycle)
    /\ SF_vars(MainExit)

\* The program with its configuration file edited while it runs.  The select
\* of the main loop chooses at random among its ready cases, so a
\* configuration that waits on the channel is received at one of the visits
\* of the select.
ReloadInit ==
    /\ Init
    /\ cfg = [enabled |-> {2}, delay |-> 0]

ReloadNext ==
    \/ Cancel
    \/ Reload
    \/ ReloadLoadConfig
    \/ MainApplyReload
    \/ ProgramStep

ReloadSpec ==
    /\ ReloadInit
    /\ [][ReloadNext]_vars
    /\ WF_vars(ProgramStep)
    /\ SF_vars(MainApplyReload)

\* ------------------------------------------- VerifyInstance on its own
\* Provision has just launched an instance for the fixed-zone account 2 in
\* the first cycle and enters VerifyInstance.
VerifyInit ==
    /\ cfg = [enabled |-> {2}, delay |-> 0]
    /\ pending = FALSE
    /\ Workers = <<2>>
    /\ Provisioned = {}
    /\ clients = {2}
    /\ tracker = IncCycle(NewTracker)
    /\ cancelled = FALSE
    /\ cycleCount = 1
    /\ pc = "verify"
    /\ i = 1
    /\ ret = NoRet
    /\ call = [NoCall EXCEPT !.acct = 2, !.listed = TRUE, !.launches = 1,
                             !.launched = TRUE, !.ad = AvailabilityDomain(2),
                             !.reqAD = AvailabilityDomain(2),
                             !.before = IncCycle(NewTracker)]
    /\ verify = [NoVerify EXCEPT !.result = [NewResult EXCEPT !.InstanceID = 2]]
    /\ trace = <<Event(2, "provision", FALSE)>>
    /\ apiLog = {<<2, "ListInstances">>, <<2, "LaunchInstance">>}
    /\ prevLaunch = [a \in Accounts |-> 0]
    /\ cancelAt = NotCancelled
    /\ mu = "free"
    /\ inc = NoInc
    /\ snapshot = NoSnapshot
    /\ reloaded = FALSE
    /\ lastOutcome = [a \in Accounts |-> "none"]
    /\ watcher = "watching"
    /\ scheduler = NotLoaded
    /\ launchedInstances = 1
    /\ runner = NewProvisionerRunner

\* The API answers the polls with anything it can answer, and the signal
\* can arrive at any moment.
VerifyNext ==
    \/ Cancel
    \/ VerifyPoll
    \/ VerifyGetInstanceAll
    \/ VerifySleep

VerifySpec == VerifyInit /\ [][VerifyNext]_vars

\* The goroutine that runs VerifyInstance keeps running: a GetInstance
\* request returns, a sleep ends.
VerifyStep == VerifyPoll \/ VerifyGetInstance \/ VerifySleep

VerifyLiveSpec == VerifyInit /\ [][Cancel \/ VerifyStep]_vars /\ WF_vars(VerifyStep)

\* ------------------------------------------------------------ Tracker.mu
\* The goroutine that runs the cycles calls Inc*, and the goroutine of the
\* terminal UI calls Snapshot at every tick.  Each access to a field of the
\* Tracker is a step.  A counter is incremented up to MaxCount times.
MaxCount == 1

\* Mutant: Lock returns without waiting for the holder.
MutexFree_Always == TRUE

\* t.mu.Lock() returns when no goroutine holds the mutex.
MutexFree == mu = "free"

IncOps == {"IncCycle", "IncCapacity", "IncError", "IncSuccess"}

\* The counter an Inc* call increments.
IncField(op) ==
    CASE op = "IncCycle" -> "TotalCycles"
      [] op = "IncCapacity" -> "CapacityErrors"
      [] op = "IncError" -> "OtherErrors"
      [] op = "IncSuccess" -> "SuccessCount"

\* The variables the Tracker's methods leave alone.
programVars == <<cfg, pending, Workers, Provisioned, clients, cancelled, cycleCount,
                 pc, i, ret, call, verify, trace, apiLog, prevLaunch, cancelAt,
                 reloaded, lastOutcome, watcher, scheduler, launchedInstances,
                 runner>>

\* A worker calls IncCycle, IncCapacity, IncError or IncSuccess.
IncCall ==
    /\ inc.op = "none"
    /\ \E op \in IncOps :
          /\ tracker[IncField(op)] < MaxCount
          /\ inc' = [op |-> op, step |-> "lock"]
    /\ UNCHANGED <<programVars, tracker, mu, snapshot>>

\* t.mu.Lock()
IncLock ==
    /\ inc.step = "lock"
    /\ MutexFree
    /\ mu' = "worker"
    /\ inc' = [inc EXCEPT !.step = "write"]
    /\ UNCHANGED <<programVars, tracker, snapshot>>

\* t.TotalCycles++, t.CapacityErrors++, t.OtherErrors++ or t.SuccessCount++
IncWrite ==
    /\ inc.step = "write"
    /\ tracker' = CASE inc.op = "IncCycle" -> IncCycle(tracker)
                    [] inc.op = "IncCapacity" -> IncCapacity(tracker)
                    [] inc.op = "IncError" -> IncError(tracker)
                    [] inc.op = "IncSuccess" -> IncSuccessCount(tracker)
    /\ inc' = [inc EXCEPT !.step = IF inc.op = "IncSuccess" THEN "stamp" ELSE "unlock"]
    /\ UNCHANGED <<programVars, mu, snapshot>>

\* IncSuccess: t.LastSuccessTime = time.Now()
IncStamp ==
    /\ inc.step = "stamp"
    /\ tracker' = SetLastSuccessTime(tracker)
    /\ inc' = [inc EXCEPT !.step = "unlock"]
    /\ UNCHANGED <<programVars, mu, snapshot>>

\* defer t.mu.Unlock()
IncUnlock ==
    /\ inc.step = "unlock"
    /\ mu' = "free"
    /\ inc' = NoInc
    /\ UNCHANGED <<programVars, tracker, snapshot>>

\* The fields of the Tracker in the order the Stats literal copies them;
\* StartTime never changes.
SnapshotFields ==
    <<"TotalCycles", "CapacityErrors", "OtherErrors", "SuccessCount", "LastSuccessTime">>

\* Snapshot: t.mu.Lock()
SnapshotLock ==
    /\ snapshot.step = "none"
    /\ MutexFree
    /\ mu' = "reader"
    /\ snapshot' = [snapshot EXCEPT !.step = "copy", !.copied = 0,
                                    !.stats = NewTracker, !.at = tracker]
    /\ UNCHANGED <<programVars, tracker, inc>>

\* Snapshot: the next field of the Tracker is copied into the Stats value.
SnapshotCopy ==
    /\ snapshot.step = "copy"
    /\ snapshot.copied < Len(SnapshotFields)
    /\ LET f == SnapshotFields[snapshot.copied + 1] IN
       snapshot' = [snapshot EXCEPT !.stats[f] = tracker[f], !.copied = @ + 1]
    /\ UNCHANGED <<programVars, tracker, mu, inc>>

\* Snapshot: the deferred Unlock runs and the Stats value is returned.
SnapshotUnlock ==
    /\ snapshot.step = "copy"
    /\ snapshot.copied = Len(SnapshotFields)
    /\ mu' = "free"
    /\ snapshot' = [snapshot EXCEPT !.step = "none", !.prev = snapshot.last,
                                    !.last = snapshot.stats,
                                    !.contended = (inc.step = "lock")]
    /\ UNCHANGED <<programVars, tracker, inc>>

TrackerNext ==
    \/ IncCall
    \/ IncLock
    \/ IncWrite
    \/ IncStamp
    \/ IncUnlock
    \/ SnapshotLock
    \/ SnapshotCopy
    \/ SnapshotUnlock

\* The Tracker from its construction, with a worker and a reader; what the
\* configuration holds makes no difference to it.
TrackerInit ==
    /\ Init
    /\ cfg = [enabled |-> {}, delay |-> 0]

TrackerSpec == TrackerInit /\ [][TrackerNext]_vars

\* ------------------------------------------------------ config.LoadConfig
\* The scheduler section of a configuration file holds, for each of the two
\* keys, an integer between -MaxYaml and MaxYaml (<<n>>), or nothing (<<>>).
MaxYaml == 12
Absent == <<>>
YamlValues == {<<n>> : n \in -MaxYaml .. MaxYaml} \cup {Absent}

\* The defaults set before parsing, and the floor of the cycle interval.
AccountDelaySeconds == 450
MinCycleInterval == 10

\* yaml.Unmarshal into a field that holds a default: a key of the file
\* replaces the default, a missing key leaves it.
Unmarshal(default, yaml) == IF yaml = Absent THEN default ELSE yaml[1]

\* Mutant: the cycle interval is returned as parsed.
ClampCycleInterval_Off(n) == n

\* if CycleIntervalSeconds < MinCycleInterval { CycleIntervalSeconds = MinCycleInterval }
ClampCycleInterval(n) == IF n < MinCycleInterval THEN MinCycleInterval ELSE n

\* if AccountDelaySeconds < 0 { AccountDelaySeconds = 0 }
ClampAccountDelay(n) == IF n < 0 THEN 0 ELSE n

\* How a LoadConfig call ends: with a Config, or with one of its errors.
LoadOutcomes == {"loaded", "not found", "error reading config", "error parsing yaml",
                 "invalid account"}

\* LoadConfig(path): defaults, yaml.Unmarshal, validation of the enabled
\* accounts, then the two clamps; every error returns a nil Config.
LoadConfig ==
    /\ scheduler.state = "file"
    /\ \E outcome \in LoadOutcomes :
          scheduler' =
              IF outcome = "loaded"
              THEN [scheduler EXCEPT
                      !.state = "loaded",
                      !.CycleIntervalSeconds =
                          ClampCycleInterval(Unmarshal(CycleIntervalSeconds, scheduler.yaml.cycle)),
                      !.AccountDelaySeconds =
                          ClampAccountDelay(Unmarshal(AccountDelaySeconds, scheduler.yaml.delay))]
              ELSE [scheduler EXCEPT !.state = outcome]
    /\ UNCHANGED <<cfg, pending, Workers, Provisioned, clients, tracker, cancelled,
                   cycleCount, pc, i, ret, call, verify, trace, apiLog, prevLaunch,
                   cancelAt, trackerVars, runner, reloaded, lastOutcome, watcher,
                   launchedInstances>>

\* Any file may be handed to LoadConfig.
ConfigInit ==
    /\ InitProgram
    /\ runner = NewProvisionerRunner
    /\ cfg = [enabled |-> {}, delay |-> 0]
    /\ \E c, d \in YamlValues :
          scheduler = [state |-> "file", yaml |-> [cycle |-> c, delay |-> d],
                       CycleIntervalSeconds |-> 0, AccountDelaySeconds |-> 0]

ConfigSpec == ConfigInit /\ [][LoadConfig]_vars

\* -------------------------------------------------- tui.ProvisionerRunner
\* The terminal UI drives the provisioning through a ProvisionerRunner.
\* Start is called at most MaxStarts times; each call that finds the runner
\* not running starts a runLoop goroutine.  A goroutine is at "first"
\* (before its first cycle), in "cycle" (inside Provisioner.RunCycle), at
\* "select" (waiting in the select of runLoop) or "exited".
MaxStarts == 2

\* The variables the runner's methods and goroutines leave alone.
headlessVars == <<cfg, pending, Workers, clients, tracker, cancelled, cycleCount,
                  pc, i, ret, call, verify, trace, apiLog, prevLaunch, cancelAt,
                  trackerVars, reloaded, lastOutcome, watcher, scheduler,
                  launchedInstances>>

\* The goroutines that are executing Provisioner.RunCycle.
InRunCycle == {g \in DOMAIN runner.loops : runner.loops[g] = "cycle"}

\* Start: under r.mu, return if running, else set running and start runLoop.
RunnerStart ==
    /\ ~runner.panicked
    /\ Len(runner.loops) < MaxStarts
    /\ runner' = IF runner.running
                 THEN runner
                 ELSE [runner EXCEPT !.running = TRUE, !.loops = Append(@, "first")]
    /\ UNCHANGED <<headlessVars, Provisioned>>

\* Stop: under r.mu, if running, close(r.stopChan) and clear running.
\* Closing a closed channel panics, before running is cleared.
RunnerStop ==
    /\ ~runner.panicked
    /\ runner' = IF ~runner.running
                 THEN runner
                 ELSE IF runner.closes >= 1
                 THEN [runner EXCEPT !.closes = @ + 1, !.panicked = TRUE]
                 ELSE [runner EXCEPT !.closes = @ + 1, !.running = FALSE]
    /\ UNCHANGED <<headlessVars, Provisioned>>

\* SetPaused(paused)
SetPaused ==
    /\ ~runner.panicked
    /\ \E paused \in BOOLEAN : runner' = [runner EXCEPT !.paused = paused]
    /\ UNCHANGED <<headlessVars, Provisioned>>

\* runLoop calls runCycle: at once when it starts, and in the ticker case
\* of its select when the runner is not paused.  The select chooses among
\* its ready cases, so the ticker case can be taken with the stop channel
\* closed.
RunLoopRunCycle ==
    /\ ~runner.panicked
    /\ \E g \in DOMAIN runner.loops :
          /\ \/ runner.loops[g] = "first"
             \/ runner.loops[g] = "select" /\ ~runner.paused
          /\ runner' = [runner EXCEPT !.loops[g] = "cycle"]
    /\ UNCHANGED <<headlessVars, Provisioned>>

\* Inside RunCycle: p.Provisioned[worker.AccountName] = true after a
\* successful attempt.  The map is not guarded: while another goroutine is
\* in RunCycle too, the write may be caught by the runtime (fatal error:
\* concurrent map writes) or go through.
RunCycleMarks ==
    /\ ~runner.panicked
    /\ \E g \in InRunCycle, a \in cfg.enabled \ Provisioned :
          \E fatal \in (IF Cardinality(InRunCycle) > 1 THEN BOOLEAN ELSE {FALSE}) :
             IF fatal
             THEN /\ runner' = [runner EXCEPT !.panicked = TRUE]
                  /\ UNCHANGED Provisioned
             ELSE /\ Provisioned' = MarkProvisioned(a, TRUE)
                  /\ UNCHANGED runner
    /\ UNCHANGED headlessVars

\* RunCycle returns, runCycle updates the statuses, runLoop is back at its
\* select.
RunCycleReturns ==
    /\ ~runner.panicked
    /\ \E g \in InRunCycle : runner' = [runner EXCEPT !.loops[g] = "select"]
    /\ UNCHANGED <<headlessVars, Provisioned>>

\* case <-ctx.Done() and case <-r.stopChan: runLoop returns.
RunLoopExit ==
    /\ ~runner.panicked
    /\ \E g \in DOMAIN runner.loops :
          /\ runner.loops[g] = "select"
          /\ cancelled \/ runner.closes >= 1
          /\ runner' = [runner EXCEPT !.loops[g] = "exited"]
    /\ UNCHANGED <<headlessVars, Provisioned>>

\* The user's keys and the program's exit call Start, Stop and SetPaused in
\* any order; both accounts are enabled.
RunnerInit ==
    /\ Init
    /\ cfg = [enabled |-> Accounts, delay |-> 0]
    /\ Workers = [k \in 1 .. NumAccounts |-> k]

RunnerNext ==
    \/ Cancel
    \/ RunnerStart
    \/ RunnerStop
    \/ SetPaused
    \/ RunLoopRunCycle
    \/ RunCycleMarks
    \/ RunCycleReturns
    \/ RunLoopExit

RunnerSpec == RunnerInit /\ [][RunnerNext]_vars

\* ================================================================= claims
AttemptKinds == {"provision", "ok", "retry", "err"}
OutcomeKinds == {"ok", "retry", "err"}
ApiOps == {"ListInstances", "ListAvailabilityDomains", "LaunchInstance", "GetInstance"}

\* C1: a worker whose alias is in Provisioned when RunCycle visits it is
\* skipped: no Provision call and no compute-API call is made for that
\* account in the cycle.
C1_SkipOnProvisioned ==
    \A k \in 1..Len(trace) :
        trace[k].prov =>
            /\ trace[k].kind = "skip"
            /\ \A op \in ApiOps : <<trace[k].acct, op>> \notin apiLog

\* C1 witness: a cycle has visited a provisioned account and gone on to
\* attempt another one.
C1_Witness ==
    \E j, k \in 1..Len(trace) :
        /\ j < k
        /\ trace[j].prov /\ trace[j].kind = "skip"
        /\ trace[k].kind \in OutcomeKinds

\* C2: when the existence check saw an instance in an active state,
\* Provision returns (true, false, nil) and has issued no launch request;
\* if the previous call for the account launched an instance, the two calls
\* together made exactly one launch request.
C2_IdempotentOnExisting ==
    /\ call.exists => call.launches = 0
    /\ (pc = "returned" /\ call.exists) =>
          /\ ret.success /\ ~ret.retryable /\ ret.err = NilErr
          /\ prevLaunch[call.acct] = 1 => prevLaunch[call.acct] + call.launches = 1

\* C2 witness: the second of two consecutive calls for an account returns
\* after the API reported the instance launched by the first.
C2_Witness ==
    /\ pc = "returned"
    /\ call.exists
    /\ prevLaunch[call.acct] = 1

\* C3: a cycle that ends without cancellation has visited every worker, and
\* has attempted every worker that was not in Provisioned at its visit,
\* whatever errors Provision returned on the way; without cancellation
\* RunCycle never ends abnormally.
C3_CycleIsolation ==
    /\ (pc = "done" /\ ~cancelled) =>
          \A w \in 1..Len(Workers) :
              \E k \in 1..Len(trace) :
                  /\ trace[k].acct = Workers[w]
                  /\ trace[k].prov \/ trace[k].kind \in OutcomeKinds
    /\ ~cancelled => pc # "crashed"

\* C3 witness: an uncancelled cycle has ended in which Provision returned a
\* non-retryable error for one account and a later account was attempted.
C3_Witness ==
    /\ pc = "done"
    /\ ~cancelled
    /\ \E j, k \in 1..Len(trace) :
          /\ j < k
          /\ trace[j].kind = "err"
          /\ trace[k].kind \in OutcomeKinds

\* C4: once the launch request has succeeded, Provision returns
\* (true, false, nil) however VerifyInstance ended (mismatch, ceiling,
\* terminated instance, cancelled context); a verification failure never
\* aborts Provision.
C4_LaunchedReturnsSuccess ==
    (call.launched /\ verify.returned) =>
        /\ pc = "returned"
        /\ ret.success /\ ~ret.retryable /\ ret.err = NilErr

\* C5: Provisioned only grows, over cycles and configuration reloads alike.
C5_ProvisionedGrowOnly == [][Provisioned \subseteq Provisioned']_vars

\* C6: an alias enters Provisioned exactly in the step in which RunCycle
\* handles a Provision call for that alias that returned success = true;
\* nothing else adds an alias.
C6_AddedOnSuccessOnly ==
    [][(\A a \in Provisioned' \ Provisioned :
            /\ pc = "returned"
            /\ ret.success
            /\ a = call.acct
            /\ a = Workers[i])
       /\ ((pc = "returned" /\ pc' # pc) =>
               (ret.success <=> call.acct \in Provisioned'))
      ]_vars

\* C6 witness: a cycle in which one account failed and stayed out of
\* Provisioned while another succeeded and is in it.
C6_Witness ==
    \E j, k \in 1..Len(trace) :
        /\ trace[j].kind \in {"err", "retry"} /\ trace[j].acct \notin Provisioned
        /\ trace[k].kind = "ok" /\ trace[k].acct \in Provisioned

\* C7: when cancellation is signalled, a RunCycle that is about to visit a
\* worker returns at once, and no Provision call is started any more.
C7_NoStartAfterCancel ==
    [][cancelled =>
          /\ ~(pc # "checkExisting" /\ pc' = "checkExisting")
          /\ (pc = "visit" /\ pc' # pc) => (pc' = "done" /\ trace' = trace)
       ]_vars

\* C7 witness: cancellation is signalled and RunCycle is about to visit a
\* worker it would otherwise attempt.
C7_Witness ==
    /\ cancelled
    /\ pc = "visit"
    /\ Workers[i] \notin Provisioned

\* C8: when cancellation is signalled while RunCycle waits out the delay,
\* the cycle ends without any further account being visited or attempted.
C8_DelayInterruptible ==
    (cancelAt.inDelay /\ tracker.TotalCycles = cancelAt.cycle
                      /\ pc \notin {"loop", "exited"}) =>
        /\ pc \in {"delay", "visit", "done"}
        /\ Len(trace) = cancelAt.events

\* C8 witness: the cycle has returned after cancellation arrived in the
\* delay, with a worker left that it would otherwise have attempted.
C8_Witness ==
    /\ cancelAt.inDelay
    /\ tracker.TotalCycles = cancelAt.cycle
    /\ pc = "done"
    /\ \E w \in 1..Len(Workers) :
          /\ Workers[w] \notin Provisioned
          /\ \A k \in 1..Len(trace) : trace[k].acct # Workers[w]

\* C9 as stated: in a cycle that ends without cancellation, every delay is
\* followed by another account attempt (none comes after the last attempt).
C9_NoSleepAfterLastAttempt ==
    (pc = "done" /\ ~cancelled) =>
        \A k \in 1..Len(trace) :
            trace[k] = SleepEvent =>
                \E j \in (k + 1)..Len(trace) : trace[j].kind \in AttemptKinds

\* C9 amended: RunCycle sleeps only right after an attempted account that is
\* not the last worker of the list, and then whenever the delay is positive;
\* after the last worker of the list it does not sleep.  The workers that
\* follow a delay may all be skipped.
C9_SleepAfterNonLastAttempt ==
    /\ \A k \in 1..Len(trace) :
          trace[k] = SleepEvent =>
              /\ k > 1
              /\ trace[k - 1].kind \in OutcomeKinds
              /\ trace[k - 1].acct # Workers[Len(Workers)]
              /\ cfg.delay > 0
    /\ \A k \in 1..(Len(trace) - 1) :
          (trace[k].kind \in OutcomeKinds /\ cfg.delay > 0
                                           /\ trace[k].acct # Workers[Len(Workers)])
              => trace[k + 1] = SleepEvent

\* C9 witness: an uncancelled cycle has ended in which the delay after an
\* attempt was followed by skipped accounts only.
C9_Witness ==
    /\ pc = "done"
    /\ ~cancelled
    /\ \E k \in 2..(Len(trace) - 1) :
          /\ trace[k] = SleepEvent
          /\ \A j \in (k + 1)..Len(trace) : trace[j].kind = "skip"

\* C10: every RunCycle invocation increments TotalCycles exactly once, before
\* it visits any account: while an invocation is in progress or has just
\* returned the counter equals main's count of invocations, and between
\* invocations it is one less than the number of the next one.
C10_CycleCountedOnce ==
    IF pc \in {"start", "loop", "exited"}
    THEN tracker.TotalCycles = cycleCount - 1
    ELSE tracker.TotalCycles = cycleCount

\* C10 witness: the second invocation has returned at its first cancellation
\* check, having visited no account.
C10_Witness ==
    /\ pc = "done"
    /\ cancelled
    /\ Len(Workers) > 0
    /\ trace = <<>>
    /\ tracker.TotalCycles = 2

\* ------------------------------------------- launch error classification
\* The step in which LaunchInstance failed and Provision returned.
LaunchFailed == pc = "launch" /\ pc' = "returned"

\* The messages of Messages that hold "capacity" or "limit" in any case.
MentionsCapacityOrLimit(e) == e.msg \in {MsgCapacity, MsgLimit}

\* C11: a structured launch error with status 500, or whose message holds
\* "capacity" or "limit" in any letter case, makes Provision return
\* (false, true, nil) and adds one to CapacityErrors and to no other counter.
C11_CapacityClassified ==
    [][(/\ LaunchFailed
        /\ IsServiceError(call'.lerr)
        /\ (call'.lerr.status = 500 \/ MentionsCapacityOrLimit(call'.lerr)))
       => (/\ ret' = Ret(FALSE, TRUE, NilErr)
           /\ tracker' = [tracker EXCEPT !.CapacityErrors = @ + 1])
      ]_vars

\* C11 witness: Provision has returned retryable after a status-400 error
\* whose message is "LimitExceeded" (capital L), counted as capacity.
C11_Witness ==
    /\ pc = "returned"
    /\ call.lerr = ServiceErr(400, MsgLimit)
    /\ ret = Ret(FALSE, TRUE, NilErr)
    /\ tracker.CapacityErrors = 1 /\ tracker.OtherErrors = 0

\* C12 as stated: every structured launch error with status 429 makes
\* Provision return (false, true, nil) and adds one to OtherErrors, not to
\* CapacityErrors.
C12_RateLimitClassified ==
    [][(/\ LaunchFailed
        /\ IsServiceError(call'.lerr)
        /\ call'.lerr.status = 429)
       => (/\ ret' = Ret(FALSE, TRUE, NilErr)
           /\ tracker' = [tracker EXCEPT !.OtherErrors = @ + 1])
      ]_vars

\* C12 amended: a structured launch error with status 429 makes Provision
\* return (false, true, nil); it adds one to OtherErrors when its message
\* holds neither "capacity" nor "limit", and one to CapacityErrors when it
\* does (the capacity test comes first).
C12_RateLimitAfterCapacity ==
    [][(/\ LaunchFailed
        /\ IsServiceError(call'.lerr)
        /\ call'.lerr.status = 429)
       => (/\ ret' = Ret(FALSE, TRUE, NilErr)
           /\ tracker' = IF MentionsCapacityOrLimit(call'.lerr)
                         THEN [tracker EXCEPT !.CapacityErrors = @ + 1]
                         ELSE [tracker EXCEPT !.OtherErrors = @ + 1])
      ]_vars

\* C12 witness: Provision has returned retryable after a status-429 error
\* "Too many requests", counted as a generic error.
C12_Witness ==
    /\ pc = "returned"
    /\ call.lerr = ServiceErr(429, MsgTooMany)
    /\ ret = Ret(FALSE, TRUE, NilErr)
    /\ tracker.OtherErrors = 1 /\ tracker.CapacityErrors = 0

Count(seq, x) == Cardinality({k \in 1..Len(seq) : seq[k] = x})

\* The least element of a non-empty set of numbers.
Min(S) == CHOOSE x \in S : \A y \in S : x <= y

\* VerifyInstance has returned after a poll reported RUNNING.
RanToEnd == verify.sawRunning /\ verify.returned

\* The shape the API reported differs from the requested one.
OcpusDiffer == verify.shape.ocpus # RequestedOCPUs
MemoryDiffers == verify.shape.mem # RequestedMemoryGB

\* C15: the first poll that reports TERMINATED or TERMINATING makes
\* VerifyInstance return a non-nil error in the same step, that poll being
\* its last GetInstance and no sleep following it, with a non-nil result
\* whose Verified flag is false.
C15_TerminationAbort ==
    verify.sawTerminal =>
        /\ verify.returned
        /\ verify.err # NilErr
        /\ ~verify.result.nil
        /\ ~verify.result.Verified
        /\ verify.last.state \in {"TERMINATED", "TERMINATING"}
        /\ verify.gets = verify.polls + 1

\* C15 witness: the second poll, before the ceiling, reported TERMINATING.
C15_Witness ==
    /\ verify.returned
    /\ verify.sawTerminal
    /\ verify.last.state = "TERMINATING"
    /\ verify.gets = 2 /\ verify.polls = 1

\* C16 as stated: whenever a poll reported RUNNING the final Verified flag is
\* true, whatever discrepancies were recorded.
C16_RunningIsVerified == RanToEnd => verify.result.Verified

\* C16 amended: when a poll reported RUNNING the final Verified flag is true
\* exactly when the reported OCPUs and memory equal the requested ones;
\* failed polls and attachment or address lookup failures do not clear it.
C16_VerifiedUnlessMismatch ==
    RanToEnd => (verify.result.Verified <=> ~(OcpusDiffer \/ MemoryDiffers))

\* C16 witness: Verified is true although a failed poll and a failed
\* ListVnicAttachments were recorded.
C16_Witness ==
    /\ RanToEnd
    /\ verify.result.Verified
    /\ verify.resp.failed
    /\ Count(verify.result.Errors, "GetInstance failed") = 1
    /\ Count(verify.result.Errors, "ListVnicAttachments failed") = 1

\* C17: once the instance is running, SpecsMismatch is set exactly when the
\* reported OCPUs or the reported memory differ from the requested value
\* (a value the response does not hold differs), one message is recorded
\* per differing dimension, and the returned error is nil.
C17_SpecComparison ==
    RanToEnd =>
        /\ verify.result.SpecsMismatch <=> (OcpusDiffer \/ MemoryDiffers)
        /\ Count(verify.result.Errors, "OCPUs mismatch") = IF OcpusDiffer THEN 1 ELSE 0
        /\ Count(verify.result.Errors, "Memory mismatch") = IF MemoryDiffers THEN 1 ELSE 0
        /\ verify.err = NilErr

\* C17 witness: 2 OCPUs and 12 GB were reported for 4 and 24 requested; both
\* messages are recorded once.
C17_Witness ==
    /\ RanToEnd
    /\ verify.shape = Shape(2, 12)
    /\ verify.result.SpecsMismatch
    /\ verify.result.OCPUs = 2 /\ verify.result.MemoryGB = 12
    /\ Count(verify.result.Errors, "OCPUs mismatch") = 1
    /\ Count(verify.result.Errors, "Memory mismatch") = 1

\* C18: when the ceiling is reached without a poll having reported RUNNING,
\* VerifyInstance returns a non-nil error and a non-nil result that holds
\* the instance id and the state, display name and shape of the last poll
\* that was answered.
C18_CeilingPartialResult ==
    verify.timedOut =>
        /\ verify.returned
        /\ ~verify.sawRunning
        /\ verify.err # NilErr
        /\ ~verify.result.nil
        /\ verify.result.InstanceID = call.acct
        /\ verify.result.State = verify.last.state
        /\ verify.result.DisplayName = verify.last.name
        /\ verify.result.Shape = verify.last.shape

\* C18 witness: the ceiling was reached after an answered poll and a failed
\* one; the result holds what the answered poll reported.
C18_Witness ==
    /\ verify.timedOut
    /\ verify.result.Errors = <<"GetInstance failed", "Timeout">>
    /\ verify.result.DisplayName = "renamed"
    /\ verify.result.State = "PROVISIONING"

\* The attachments in the ATTACHED state, and those of them that have a
\* VNIC id and whose GetVnic succeeded.
AttachedAt == {k \in 1..Len(verify.resp.items) : verify.resp.items[k].state = "ATTACHED"}
ResolvedAt ==
    {k \in AttachedAt : verify.resp.items[k].hasId /\ verify.resp.items[k].vnic # "err"}

\* C19 as stated: the reported addresses are those of the first attachment
\* of the list in the ATTACHED state (or empty), and no failure of the
\* lookups makes VerifyInstance return an error.
C19_FirstAttachedAddress ==
    RanToEnd =>
        /\ verify.err = NilErr
        /\ verify.result.PublicIP \in {0} \cup (IF AttachedAt = {} THEN {} ELSE {Min(AttachedAt)})
        /\ verify.result.PrivateIP \in {0} \cup (IF AttachedAt = {} THEN {} ELSE {Min(AttachedAt)})

\* C19 amended: the reported addresses are those of the first attachment of
\* the list that has a VNIC id, is ATTACHED and whose GetVnic succeeds;
\* every ATTACHED attachment before it whose GetVnic failed, and a failed
\* ListVnicAttachments, add one message each; the returned error is nil.
C19_FirstResolvedAddress ==
    RanToEnd =>
        LET atts == verify.resp.items
            upTo == IF ResolvedAt = {} THEN Len(atts) ELSE Min(ResolvedAt)
            failedBefore == {k \in AttachedAt : k <= upTo /\ atts[k].hasId /\ atts[k].vnic = "err"}
        IN  /\ verify.err = NilErr
            /\ Count(verify.result.Errors, "ListVnicAttachments failed")
                  = IF verify.resp.failed THEN 1 ELSE 0
            /\ Count(verify.result.Errors, "GetVnic failed") = Cardinality(failedBefore)
            /\ IF ResolvedAt = {}
               THEN verify.result.PublicIP = 0 /\ verify.result.PrivateIP = 0
               ELSE /\ verify.result.PublicIP =
                          IF atts[upTo].vnic \in {"both", "public"} THEN upTo ELSE 0
                    /\ verify.result.PrivateIP =
                          IF atts[upTo].vnic \in {"both", "private"} THEN upTo ELSE 0

\* C19 witness: GetVnic failed for the first ATTACHED attachment and the
\* addresses of the second are reported, with one message.
C19_Witness ==
    /\ RanToEnd
    /\ verify.resp.items = <<Att(TRUE, "ATTACHED", "err"), Att(TRUE, "ATTACHED", "both")>>
    /\ verify.result.PublicIP = 2 /\ verify.result.PrivateIP = 2
    /\ Count(verify.result.Errors, "GetVnic failed") = 1

\* ----------------------------------------------------------- sequencing
\* C20: at most one Provision call is in progress at any moment, and it is
\* the last entry of the cycle's trace; a Provision call starts only when
\* the previous call, its verification included, has returned and been
\* handled by RunCycle; a cycle starts only when no cycle is running.
C20_StrictlySequential ==
    /\ [](/\ \A k \in 1..Len(trace) :
               trace[k].kind = "provision" => (k = Len(trace) /\ trace[k].acct = call.acct)
          /\ InProvision =>
               (Len(trace) > 0 /\ trace[Len(trace)].kind = "provision"))
    /\ [][/\ (~InProvision /\ InProvision') =>
               (/\ call = NoCall /\ verify = NoVerify
                /\ \A k \in 1..Len(trace) : trace[k].kind # "provision")
          /\ (tracker'.TotalCycles # tracker.TotalCycles) =>
               (/\ pc \in {"start", "loop"}
                /\ call = NoCall
                /\ trace = <<>>)
         ]_vars

\* C20 witness: the second account's verification is in progress after the
\* first account's Provision launched, verified and returned success.
C20_Witness ==
    /\ pc = "verify"
    /\ Len(trace) >= 2
    /\ trace[1].kind = "ok"
    /\ prevLaunch[trace[1].acct] = 1
    /\ trace[Len(trace)].kind = "provision"

\* C21: every suspension point observes the cancellation of the process:
\* once the signal has been given, a launch attempt under way returns
\* without success, a delay entered afterwards ends the cycle, and a poll
\* wait entered afterwards is not waited out before VerifyInstance returns.
C21_CooperativeCancellation ==
    [][/\ (pc = "launch" /\ cancelled /\ pc' # pc)
            => (pc' = "returned" /\ ~ret'.success)
       /\ (pc = "delay" /\ cancelled /\ ~SignalledInThisDelay /\ pc' # pc)
            => (pc' = "done")
       /\ (pc = "pollSleep" /\ verify.lateSleep)
            => (pc' # "verify")]_vars

\* C22: the verification runs under a context derived from the process
\* context and not from the attempt's: VerifyInstance gives up on its
\* context only when the process was cancelled, and the attempt's expiry
\* neither stops the polling at the loop head nor ends it any other way;
\* the cancellation of the process fails a launch under way and makes the
\* loop head of the verification return.
C22_TimeoutLayering ==
    /\ [](verify.returned /\ verify.result.nil => cancelled)
    /\ [][(pc = "verify" /\ call.expired /\ ~cancelled /\ pc' # pc)
             => (pc' = "getInstance" \/ verify'.timedOut)]_vars
    /\ [][(pc = "launch" /\ cancelled /\ pc' # pc)
             => (pc' = "returned" /\ ~ret'.success)]_vars
    /\ [][(pc = "verify" /\ cancelled /\ pc' # pc)
             => (verify'.returned /\ (verify'.result.nil \/ verify'.timedOut))]_vars
    /\ [][(pc = "getInstance" /\ cancelled /\ pc' # pc)
             => (pc' = "pollSleep"
                 /\ Len(verify'.result.Errors) = Len(verify.result.Errors) + 1)]_vars

\* C22 witness: the attempt's 60 seconds ran out during the verification,
\* which went on polling and verified the instance.
C22_Witness ==
    /\ call.launched /\ call.expired /\ ~cancelled
    /\ verify.returned /\ verify.polls >= 1
    /\ verify.result.Verified

\* ------------------------------------------------------------------ stats
\* The counters of the Tracker.
CounterFields == {"TotalCycles", "CapacityErrors", "OtherErrors", "SuccessCount"}

\* C23: no step of the program lowers a counter of the Tracker: not a
\* cycle, not an outcome of Provision, and not the application of a
\* reloaded configuration, which leaves every counter as it was.
C23_CountersMonotonic ==
    /\ [][\A f \in CounterFields : tracker'[f] >= tracker[f]]_vars
    /\ [][reloaded' # reloaded => tracker' = tracker]_vars

\* C23 witness: a reloaded configuration has been applied after a first
\* cycle that counted a success and a capacity error, and the counts stand.
C23_Witness ==
    /\ reloaded
    /\ pc = "loop"
    /\ tracker.TotalCycles = 1
    /\ tracker.SuccessCount >= 1
    /\ tracker.CapacityErrors >= 1

\* The Tracker is between two Inc* calls: the time of the last success is
\* the time of the success last counted.
BetweenIncrements(t) == t.LastSuccessTime = t.SuccessCount

\* C24: the Stats a Snapshot call returns is the Tracker as it stood at
\* one moment, the moment Snapshot took the lock, when no Inc* call was
\* between its first write and its return; while the copy is under way the
\* Tracker does not change; and of two Stats values returned one after the
\* other, the later is nowhere lower than the earlier.
C24_SnapshotAtomic ==
    /\ snapshot.step = "none" =>
          /\ snapshot.last = snapshot.at
          /\ BetweenIncrements(snapshot.last)
    /\ snapshot.step = "copy" =>
          /\ tracker = snapshot.at
          /\ inc.step \in {"none", "lock"}
    /\ \A k \in 1..Len(SnapshotFields) :
          snapshot.prev[SnapshotFields[k]] <= snapshot.last[SnapshotFields[k]]

\* C24 witness: Snapshot has returned a Stats that counts a success, with a
\* call of Inc* blocked on the lock while it copied, after an earlier
\* Snapshot that returned lower counts.
C24_Witness ==
    /\ snapshot.step = "none"
    /\ snapshot.contended
    /\ snapshot.last.SuccessCount = 1
    /\ snapshot.last.TotalCycles = 1
    /\ snapshot.prev # snapshot.last
    /\ snapshot.prev # NewTracker

\* ----------------------------------------------------------------- alert
\* C25: when the success notification fails after a launch, Provision
\* still returns (true, false, nil) with the success already counted, and
\* RunCycle then puts the alias in Provisioned.
C25_AlertBestEffort ==
    /\ [](call.alert = "failed" =>
             /\ pc = "returned"
             /\ ret = Ret(TRUE, FALSE, NilErr)
             /\ call.launched
             /\ tracker.SuccessCount >= 1)
    /\ [][(pc \in {"verify", "getInstance"} /\ call'.alert = "failed")
             => (tracker'.SuccessCount = tracker.SuccessCount + 1)]_vars
    /\ [][(call.alert = "failed" /\ pc' # pc)
             => (call.acct \in Provisioned' /\ tracker' = tracker)]_vars

\* C25 witness: Provision has returned success for a launched and verified
\* instance whose notification failed.
C25_Witness ==
    /\ pc = "returned"
    /\ call.alert = "failed"
    /\ ret.success
    /\ verify.result.Verified
    /\ call.acct \notin Provisioned

\* ----------------------------------------------------------------- retry
\* Provision has returned a retryable failure for account a in cycle c.
RetryableFailure(a, c) ==
    /\ pc = "returned"
    /\ call.acct = a
    /\ ~ret.success /\ ret.retryable
    /\ tracker.TotalCycles = c

\* Account a is being attempted in a cycle after cycle c.
AttemptedAfter(a, c) ==
    /\ InProvision
    /\ call.acct = a
    /\ tracker.TotalCycles > c

\* The process was told to stop, or the cycles the model runs are used up.
GivenUp ==
    \/ cancelled
    \/ cycleCount > MaxCycles

\* C26: a retryable failure leaves the account out of Provisioned; unless
\* the process is cancelled, the account is attempted again in a later
\* cycle (as long as the model runs cycles); and
\* once the API accepts a launch, the account enters Provisioned unless the
\* process is cancelled.
C26_RetryUntilCreated ==
    /\ [][(pc = "returned" /\ ~ret.success /\ ret.retryable /\ pc' # pc)
             => (call.acct \notin Provisioned')]_vars
    /\ \A a \in Accounts, c \in 1..MaxCycles :
          RetryableFailure(a, c) ~> (AttemptedAfter(a, c) \/ GivenUp)
    /\ \A a \in Accounts :
          (call.launched /\ call.acct = a) ~> (a \in Provisioned \/ cancelled)

\* C26 witness: the only enabled account met a capacity error in the first
\* cycle and was launched and put in Provisioned in the second, with no
\* cancellation and no reload.
C26_Witness ==
    /\ ~cancelled /\ ~reloaded
    /\ Cardinality(cfg.enabled) = 1
    /\ tracker.TotalCycles = 2
    /\ tracker.CapacityErrors = 1
    /\ \E a \in cfg.enabled : a \in Provisioned /\ prevLaunch[a] = 1

\* ---------------------------------------------------------------- parking
\* C27: an account whose last Provision call under the configuration in
\* use returned a non-retryable error is not attempted when a later visit
\* reaches it.
C27_FatalErrorParksAccount ==
    [][(pc = "visit" /\ lastOutcome[Workers[i]] = "err")
          => (pc' # "checkExisting")]_vars

\* ---------------------------------------------------------------- backoff
\* The launches that failed and were counted, all of them consecutive
\* while nothing has succeeded.
LaunchFailures == tracker.CapacityErrors + tracker.OtherErrors

\* The wait the retry section describes after k consecutive failures, in
\* seconds: the base interval, doubled at each further failure, capped.
Backoff(k) == Min({BaseIntervalMinutes * 60 * 2 ^ (k - 1), MaxIntervalMinutes * 60})

\* C28: a launch error with status 500, 502 or 429 is returned as
\* retryable, and the wait before the next cycle is the base interval
\* doubled at each consecutive failure, up to the maximum interval.
C28_ExponentialBackoff ==
    /\ [][(/\ pc = "launch" /\ pc' = "returned"
           /\ IsServiceError(call'.lerr)
           /\ call'.lerr.status \in {500, 502, 429})
             => (ret'.retryable)]_vars
    /\ []((pc = "loop" /\ tracker.SuccessCount = 0 /\ LaunchFailures >= 1)
             => (TickerInterval(LaunchFailures) = Backoff(LaunchFailures)))

\* ------------------------------------------------------- auto-discovery
\* C29: with the zone set to "auto", an attempt that ends without a
\* launched instance has sent a launch request to every availability
\* domain the API listed.
C29_ScansAllDomains ==
    (/\ pc = "returned"
     /\ AvailabilityDomain(call.acct) = "auto"
     /\ call.launches >= 1
     /\ ~call.launched)
        => (call.launches = Len(call.adList))

\* --------------------------------------------------------------- shutdown
\* C30: after the signal no account attempt is started, the cycle under
\* way returns, and main leaves its loop.
C30_GracefulShutdown ==
    /\ [][(cancelled /\ pc' # pc) => (pc' # "checkExisting")]_vars
    /\ cancelled ~> (pc = "exited")

\* ----------------------------------------------------------------- reload
\* C31: a load of the configuration file that fails delivers nothing to
\* main: the step changes nothing but the watcher, no value waits on the
\* channel afterwards, and until the watcher loads again main keeps its
\* configuration and its Provisioner.
C31_FailedReloadChangesNothing ==
    /\ [](watcher = "failed" => ~pending)
    /\ [][(watcher = "loading" /\ watcher' = "failed")
             => UNCHANGED <<cfg, pending, Workers, Provisioned, clients, tracker,
                            cycleCount, pc, i, reloaded, lastOutcome>>]_vars
    /\ [][(watcher = "failed" /\ watcher' = "failed")
             => UNCHANGED <<cfg, pending, Workers, reloaded>>]_vars

\* C31 witness: after a load that failed a cycle runs on the configuration
\* and the Provisioned set of before, holding an account provisioned in an
\* earlier cycle.
C31_Witness ==
    /\ watcher = "failed"
    /\ ~reloaded
    /\ tracker.TotalCycles = 2
    /\ pc = "visit"
    /\ Provisioned # {}

\* C32: every Config LoadConfig returns has CycleIntervalSeconds >= 10 and
\* AccountDelaySeconds >= 0: a cycle interval below 10 in the file comes back
\* as 10, a negative account delay as 0, a value within bounds as written,
\* and a missing key as its default.
C32_SchedulerBounds ==
    scheduler.state = "loaded" =>
        /\ scheduler.CycleIntervalSeconds >= 10
        /\ scheduler.AccountDelaySeconds >= 0
        /\ LET c == scheduler.yaml.cycle
               d == scheduler.yaml.delay
           IN  /\ scheduler.CycleIntervalSeconds =
                      IF c = Absent THEN 900 ELSE IF c[1] < 10 THEN 10 ELSE c[1]
               /\ scheduler.AccountDelaySeconds =
                      IF d = Absent THEN 450 ELSE IF d[1] < 0 THEN 0 ELSE d[1]

C32_Witness ==
    /\ scheduler.state = "loaded"
    /\ scheduler.yaml.cycle = <<0>>
    /\ scheduler.CycleIntervalSeconds = 10
    /\ scheduler.yaml.delay = <<-1>>
    /\ scheduler.AccountDelaySeconds = 0

\* C33: the tuple (success, retryable, err) Provision returns has one of
\* three forms: success implies not retryable and a nil err; retryable
\* implies not success and a nil err; neither success nor retryable implies
\* a non-nil err.
C33_ResultTuple ==
    ret.set =>
        /\ (ret.success => ~ret.retryable /\ ret.err = NilErr)
        /\ (ret.retryable => ~ret.success /\ ret.err = NilErr)
        /\ (~ret.success /\ ~ret.retryable => ret.err # NilErr)

C33_Witness ==
    /\ pc = "returned"
    /\ ret.retryable
    /\ call.lerr # NilErr
    /\ call.lerr.status = StatusRateLimit
    /\ ret.err = NilErr
    /\ cycleCount = 2

\* C34: a Provision call sends at most one LaunchInstance request, and only
\* after its ListInstances call answered without error and listed no active
\* instance; a call whose ListInstances fails returns (false, false, err)
\* with a non-nil err, having queried no availability domain and launched
\* nothing.
C34_NoBlindLaunch ==
    /\ [](call.launches <= 1)
    /\ [][(call'.launches > call.launches)
             => (/\ pc = "launch"
                 /\ call'.acct = call.acct
                 /\ call.launches = 0
                 /\ call.listed /\ ~call.listErr /\ ~call.exists
                 /\ <<call.acct, "ListInstances">> \in apiLog)]_vars
    /\ [][(call'.listErr /\ ~call.listErr)
             => (/\ pc' = "returned"
                 /\ ~ret'.success /\ ~ret'.retryable /\ ret'.err # NilErr)]_vars
    /\ [](call.listErr => pc \notin {"resolveAD", "launch", "verify", "getInstance", "pollSleep"})
    /\ [](call.listErr => call.adQueries = 0 /\ call.launches = 0 /\ ~call.launched)

C34_Witness ==
    /\ pc = "returned"
    /\ call.listErr
    /\ call.acct = 2
    /\ <<1, "LaunchInstance">> \in apiLog
    /\ <<2, "LaunchInstance">> \notin apiLog
    /\ <<2, "ListAvailabilityDomains">> \notin apiLog

\* The number of outcome counters (capacity, other, success) that stand one
\* above their value in t, the others standing at their value in t.
OutcomeFields == {"CapacityErrors", "OtherErrors", "SuccessCount"}
Raised(t) == {f \in OutcomeFields : tracker[f] = t[f] + 1}
Kept(t) == {f \in OutcomeFields : tracker[f] = t[f]}

\* C35: a Provision call that ends before its launch request (initClients
\* failure, existence-check failure, instance found, zone resolution
\* failure) leaves the capacity, other-error and success counters as it
\* found them; a call that sent the launch request has, when it ends,
\* incremented exactly one of the three, exactly once.
C35_OneCounterPerLaunch ==
    /\ []((pc = "returned" /\ call.launches = 0) => Kept(call.before) = OutcomeFields)
    /\ []((pc \in {"returned", "crashed"} /\ call.launches = 1)
            => (Cardinality(Raised(call.before)) = 1
                /\ Cardinality(Kept(call.before)) = 2))
    /\ []((InProvision /\ call.launches = 0) => Kept(call.before) = OutcomeFields)
    /\ [][(\E f \in OutcomeFields : tracker'[f] # tracker[f])
             => (/\ call'.launches = 1
                 /\ pc' \in {"returned", "crashed"}
                 /\ \E f \in OutcomeFields :
                       /\ tracker'[f] = tracker[f] + 1
                       /\ \A g \in OutcomeFields \ {f} : tracker'[g] = tracker[g])]_vars

C35_Witness ==
    /\ pc = "returned"
    /\ call.launches = 1
    /\ call.before.SuccessCount = 1
    /\ tracker.SuccessCount = 1
    /\ tracker.OtherErrors = call.before.OtherErrors + 1
    /\ ret.retryable

\* VerifyInstance is running for an instance just launched.
InVerification == pc \in {"verify", "getInstance", "pollSleep"}

ExitRunning == verify.err = NilErr /\ verify.sawRunning
ExitTerminated == verify.err = PlainErr("terminated") /\ verify.sawTerminal
ExitCeiling == verify.err = PlainErr("timeout") /\ verify.timedOut
ExitCancelled == verify.err = PlainErr("context") /\ cancelled /\ verify.result = NilResult
Exits == {e \in 1 .. 4 : CASE e = 1 -> ExitRunning
                            [] e = 2 -> ExitTerminated
                            [] e = 3 -> ExitCeiling
                            [] e = 4 -> ExitCancelled}

\* C37: every VerifyInstance call returns, after at most MaxPolls polls, in
\* exactly one of four ways: a poll reported RUNNING, a poll reported
\* TERMINATED or TERMINATING, the deadline passed, or the context was
\* cancelled; the error returned is nil only in the first.  A GetInstance
\* call that fails ends in the sleep, not in a return, and the loop then
\* polls again unless the deadline has passed or the context is Done.
C37_VerifyTerminates ==
    /\ <>verify.returned
    /\ [](verify.gets <= MaxPolls /\ verify.polls <= MaxPolls)
    /\ [](verify.returned => Cardinality(Exits) = 1)
    /\ []((verify.returned /\ verify.err = NilErr) => verify.sawRunning)
    /\ [][(pc = "getInstance" /\ Len(verify'.result.Errors) > Len(verify.result.Errors)
             /\ verify'.result.Errors[Len(verify'.result.Errors)] = "GetInstance failed")
             => (pc' = "pollSleep" /\ ~verify'.returned)]_vars
    /\ [][(pc = "pollSleep" /\ pc' # pc) => (pc' = "verify" /\ ~verify'.returned)]_vars
    /\ [][(pc = "verify" /\ pc' # pc /\ ~verify'.timedOut /\ ~cancelled)
             => pc' = "getInstance"]_vars

C37_Witness ==
    /\ verify.returned
    /\ verify.gets = 2
    /\ verify.polls = 1
    /\ verify.result.Errors # <<>>
    /\ verify.result.Errors[1] = "GetInstance failed"
    /\ ExitRunning

\* RunCycle is in progress.
InCycle == pc \notin {"start", "loop", "exited"}

\* C38: in headless mode a reloaded configuration is applied only between
\* cycles: the configuration, the workers and the Provisioned set are
\* replaced only while no RunCycle is in progress, so a cycle ends on the
\* workers it started with; a configuration loaded while a cycle runs stays
\* on the channel until the main loop receives it, which it does after the
\* cycle has returned unless the process is told to stop.
C38_ReloadBetweenCycles ==
    /\ [][(cfg' # cfg \/ Workers' # Workers \/ ~(Provisioned \subseteq Provisioned')
              \/ ~(clients \subseteq clients'))
             => (pc = "loop" /\ pc' = "loop" /\ pending /\ ~pending')]_vars
    /\ [][InCycle => (Workers' = Workers /\ cfg' = cfg)]_vars
    /\ [][(pending /\ ~pending') => (pc = "loop" /\ reloaded' /\ Provisioned' = {})]_vars
    /\ [][(InCycle /\ InCycle' /\ pending) => pending']_vars
    /\ (pending ~> (~pending \/ cancelled))

C38_Witness ==
    /\ reloaded
    /\ ~pending
    /\ ~cancelled
    /\ cfg.enabled = {1, 2}
    /\ tracker.TotalCycles = 2
    /\ pc = "visit"
    /\ watcher = "watching"

====
